---- MODULE Spec2Model ----
(***************************************************************************)
(* Token lifecycle (authService, axios interceptors, useAuth, Header) and  *)
(* the polling log viewer (LogsViewer, logsService) of the dashboard       *)
(* front end, as one state machine.                                        *)
(*                                                                         *)
(* Everything runs on the browser's single event loop: an action is one    *)
(* task (a click handler, a timer callback, the continuation of an await), *)
(* and a network request is in flight between the task that sent it and    *)
(* the task that receives its response.                                    *)
(***************************************************************************)
EXTENDS Integers, Sequences, FiniteSets, TLC

(***************************************************************************)
(* Bounds of the model.                                                    *)
(***************************************************************************)
MaxInFlight == 2      \* requests in flight at once
MaxLogins   == 1      \* of which posts of the login form
MaxTimerId  == 2      \* the interval ids the browser hands out are 1..MaxTimerId
MaxExp      == 2      \* largest exp claim (epoch seconds) a token carries
MaxTicks    == 3      \* half seconds that pass

(***************************************************************************)
(* Program constants.                                                      *)
(***************************************************************************)
MsPerSec     == 1000                   \* Date.now() / 1000
PollMs       == 30000                  \* setInterval(..., 30000)
DefaultLimit == 100                    \* useState(100)
Limits       == {50, 100, 500, 1000}   \* the <option> values of the select
LoginPath    == "/login"
LogsPath     == "/logs"
Routes       == {"/login", "/dashboard", "/logs"}

(***************************************************************************)
(* Tokens.  A token is a string; jwt-decode looks at it only through       *)
(* split('.'), so a token is the sequence of its dot-separated segments.   *)
(* A segment is known by what base64url-decoding and JSON-parsing make of  *)
(* it:                                                                     *)
(*   empty    the empty string                                             *)
(*   opaque   non-empty text that is not inspected (header, signature)     *)
(*   garbage  text that is not base64url                                   *)
(*   text     base64url of text that is not JSON                           *)
(*   null     base64url of the JSON value null                             *)
(*   object   base64url of a JSON object with the claims                   *)
(***************************************************************************)
EmptySeg   == [kind |-> "empty"]
OpaqueSeg  == [kind |-> "opaque"]
GarbageSeg == [kind |-> "garbage"]
TextSeg    == [kind |-> "text"]
NullSeg    == [kind |-> "null"]
ObjectSeg(c) == [kind |-> "object", claims |-> c]

Identities ==
    { [sub |-> "1", username |-> "admin", email |-> "admin@app", role |-> "admin"],
      [sub |-> "2", username |-> "guest", email |-> "guest@app", role |-> "viewer"] }

DecodedToken ==
    { [sub |-> i.sub, username |-> i.username, email |-> i.email,
       role |-> i.role, exp |-> e] : i \in Identities, e \in 1..MaxExp }

Jwt(c) == <<OpaqueSeg, ObjectSeg(c), OpaqueSeg>>

EmptyToken == <<EmptySeg>>

MalformedTokens ==
    { EmptyToken,                              \* ""
      <<OpaqueSeg>>,                           \* no dot at all
      <<OpaqueSeg, GarbageSeg, OpaqueSeg>>,
      <<OpaqueSeg, TextSeg, OpaqueSeg>>,
      <<OpaqueSeg, NullSeg, OpaqueSeg>> }

Tokens == MalformedTokens \cup { Jwt(c) : c \in DecodedToken }

(***************************************************************************)
(* localStorage, restricted to the key auth_token.                         *)
(***************************************************************************)
Absent    == [present |-> FALSE]
Item(t)   == [present |-> TRUE, tok |-> t]

getItem(st)    == st                 \* null when the key is absent
setItem(st, t) == Item(t)
removeItem(st) == Absent

\* JavaScript truthiness of what getItem returns: null and "" are falsy.
Truthy(v) == v.present /\ v.tok # EmptyToken

(***************************************************************************)
(* jwtDecode(token): part = token.split('.')[1]; throws when the part is   *)
(* missing, is not base64url, or does not parse as JSON; otherwise returns *)
(* the parsed value, which may be null.                                    *)
(***************************************************************************)
Thrown      == [thrown |-> TRUE]
Returned(v) == [thrown |-> FALSE, value |-> v]
JsNull      == [null |-> TRUE]

jwtDecode(token) ==
    IF Len(token) < 2 THEN Thrown
    ELSE LET part == token[2] IN
         CASE part.kind = "object" -> Returned(part.claims)
           [] part.kind = "null"   -> Returned(JsNull)
           [] OTHER                -> Thrown

\* const user = { id: decoded.sub, ... }; reading a property of null throws.
User(decoded) ==
    IF decoded = JsNull THEN Thrown
    ELSE Returned([id |-> decoded.sub, username |-> decoded.username,
                   email |-> decoded.email, role |-> decoded.role])

NullUser == [null |-> TRUE]

(***************************************************************************)
(* checkAuth(), as a function of the store and the clock: the result it    *)
(* returns and the store it leaves.  decoded.exp < Date.now() / 1000 is    *)
(* evaluated as decoded.exp * 1000 < Date.now().                           *)
(***************************************************************************)
Unauthenticated == [isAuthenticated |-> FALSE, user |-> NullUser]

checkAuthMutKeep(st, t) ==
    LET token == getItem(st) IN
    IF ~Truthy(token)
    THEN [result |-> Unauthenticated, store |-> st]
    ELSE LET d == jwtDecode(token.tok) IN
         IF d.thrown \/ User(d.value).thrown
         THEN [result |-> Unauthenticated, store |-> st]
         ELSE IF d.value.exp * MsPerSec < t
              THEN [result |-> Unauthenticated, store |-> removeItem(st)]
              ELSE [result |-> [isAuthenticated |-> TRUE,
                                user |-> User(d.value).value],
                    store |-> st]

checkAuthResult(st, t) ==
    LET token == getItem(st) IN
    IF ~Truthy(token)
    THEN [result |-> Unauthenticated, store |-> st]
    ELSE LET d == jwtDecode(token.tok) IN
         IF d.thrown \/ User(d.value).thrown
         THEN [result |-> Unauthenticated, store |-> removeItem(st)]
         ELSE IF d.value.exp * MsPerSec < t
              THEN [result |-> Unauthenticated, store |-> removeItem(st)]
              ELSE [result |-> [isAuthenticated |-> TRUE,
                                user |-> User(d.value).value],
                    store |-> st]


(***************************************************************************)
(* HTTP.  A request in flight is its axios config plus what the caller's   *)
(* continuation has closed over: kind names the endpoint and the caller    *)
(* (login: POST /api/auth/token, logs: GET /api/logs?lines=limit, clear:   *)
(* POST /api/logs/clear), limit is the linesLimit of the render whose      *)
(* fetchLogs the continuation holds, and stale says that the component     *)
(* instance that awaits the response has been unmounted since.  passed     *)
(* keeps the history the ordering properties need: the component has       *)
(* already displayed the response of a request it sent after this one.     *)
(***************************************************************************)
NoHeader  == [none |-> TRUE]
Bearer(t) == [scheme |-> "Bearer", token |-> t]

Config(kind, limit, stale) ==
    [kind |-> kind, limit |-> limit, stale |-> stale, passed |-> FALSE,
     Authorization |-> NoHeader]

\* axios.interceptors.request.use: config.headers is always set by axios.
requestInterceptorMutKey(config, st) ==
    LET token == getItem(Absent) IN
    IF Truthy(token)
    THEN [config EXCEPT !.Authorization = Bearer(token.tok)]
    ELSE config

requestInterceptor(config, st) ==
    LET token == getItem(st) IN
    IF Truthy(token)
    THEN [config EXCEPT !.Authorization = Bearer(token.tok)]
    ELSE config

Unauthorized == 401      \* response.status === 401
NoResponse   == 0        \* status: 0 of a rejection without a response
SuccessStatuses == {200}
ErrorStatuses   == {Unauthorized, 500}

\* What axios hands to the rejection handler: an error with a response of a
\* non-2xx status, or an error without a response.
Errors ==
    { [response |-> TRUE, status |-> s] : s \in ErrorStatuses }
      \cup { [response |-> FALSE, status |-> NoResponse] }

(***************************************************************************)
(* axios.interceptors.response.use, rejection handler: what it does to     *)
(* window.location.href and to localStorage, and the status of the         *)
(* normalised rejection it passes on.                                      *)
(***************************************************************************)
onRejectedMutClear(error, st, href) ==
    IF error.response
    THEN [href   |-> IF error.status = Unauthorized THEN LoginPath ELSE href,
          store  |-> IF error.status = Unauthorized THEN removeItem(st) ELSE st,
          status |-> error.status]
    ELSE [href |-> href, store |-> st, status |-> NoResponse]

onRejected(error, st, href) ==
    IF error.response
    THEN [href   |-> IF error.status = Unauthorized THEN LoginPath ELSE href,
          store  |-> st,
          status |-> error.status]
    ELSE [href |-> href, store |-> st, status |-> NoResponse]

(***************************************************************************)
(* Bodies of the 2xx responses of GET /api/logs.                           *)
(***************************************************************************)
LogsResponse ==
    { [logs |-> <<>>,           total_lines |-> 0, returned_lines |-> 0],
      [logs |-> <<"a", "b">>,   total_lines |-> 2, returned_lines |-> 2],
      [logs |-> <<"b", "a">>,   total_lines |-> 7, returned_lines |-> 2] }

(***************************************************************************)
(* State.                                                                  *)
(***************************************************************************)
VARIABLES
    store,       \* localStorage['auth_token']
    nowMs,       \* Date.now()
    route,       \* the path the router shows
    href,        \* pending assignment to window.location.href, or "" 
    reqs,        \* requests in flight, in the order they were sent
    authState,   \* useAuth: {isAuthenticated, user} and isLoading
    logs,        \* LogsViewer state
    totalLines,
    isLoading,
    linesLimit,
    interval,    \* the interval id the live effect's cleanup holds, 0 if none
    timers,      \* the page's active intervals
    last         \* the step just taken

vars == <<store, nowMs, route, href, reqs, authState, logs, totalLines,
          isLoading, linesLimit, interval, timers, last>>

authVars == <<store, nowMs, authState>>
viewVars == <<logs, totalLines, isLoading, linesLimit, interval, timers>>

NoStatus == 0 - 1
\* The record of a step: the operation, the status of the response it
\* handled (if any), what it returned or received, and the store before it.
Step(op, status, result) ==
    [op |-> op, status |-> status, result |-> result, before |-> store]
Nothing == [none |-> TRUE]

Mounted == route = LogsPath

InitialAuthState == [isAuthenticated |-> FALSE, user |-> NullUser, isLoading |-> TRUE]

Init ==
    /\ store = Absent
    /\ nowMs = 0
    /\ route = LoginPath
    /\ href = ""
    /\ reqs = <<>>
    /\ authState = InitialAuthState
    /\ logs = <<>>
    /\ totalLines = 0
    /\ isLoading = FALSE
    /\ linesLimit = DefaultLimit
    /\ interval = 0
    /\ timers = {}
    /\ last = [op |-> "load", status |-> NoStatus, result |-> Nothing, before |-> store]

Remove(s, i) == SubSeq(s, 1, i - 1) \o SubSeq(s, i + 1, Len(s))

\* axios sends the config the request interceptor returns.
Send(rs, kind, limit, stale) ==
    Append(rs, requestInterceptor(Config(kind, limit, stale), store))


(***************************************************************************)
(* LogsViewer: the pieces of the component.                                *)
(***************************************************************************)
\* fetchLogs(), up to its await: getLogs(linesLimit) sends the request.
fetchLogs(rs, limit, stale) == Send(rs, "logs", limit, stale)

\* The requests the effect sends when it runs: its one call of fetchLogs().
effectRequestsMutTwice(rs, limit) ==
    fetchLogs(fetchLogs(rs, limit, FALSE), limit, FALSE)

effectRequests(rs, limit) == fetchLogs(rs, limit, FALSE)

\* The effect's cleanup: clearInterval(interval).
cleanupMutKeep(ts, id) == ts

cleanup(ts, id) == { t \in ts : t.id # id }

\* setInterval(() => fetchLogs(), 30000): the callback holds the fetchLogs
\* of the render the effect belongs to, and so that render's linesLimit.
setInterval(ts, id, limit) == ts \cup { [id |-> id, ms |-> PollMs, limit |-> limit] }

\* fetchLogs(), after its await: the Log Window it leaves.  outcome is the
\* resolved response data or the rejection.
fetchLogsSettledMutReset(outcome, window) ==
    IF outcome.ok
    THEN [logs |-> outcome.data.logs, totalLines |-> outcome.data.total_lines]
    ELSE [logs |-> <<>>, totalLines |-> 0]

fetchLogsSettledMutMerge(outcome, window) ==
    IF outcome.ok
    THEN [logs |-> outcome.data.logs, totalLines |-> window.totalLines]
    ELSE window

fetchLogsSettled(outcome, window) ==
    IF outcome.ok
    THEN [logs |-> outcome.data.logs, totalLines |-> outcome.data.total_lines]
    ELSE window

Window == [logs |-> logs, totalLines |-> totalLines]

\* handleClearLogs(), after its await: the requests in flight once clearLogs()
\* has settled.  On success the handler calls the fetchLogs it closed over;
\* the catch block only logs.
handleClearLogsSettledMutFinally(ok, rs, limit, stale) ==
    fetchLogs(rs, limit, stale)

handleClearLogsSettled(ok, rs, limit, stale) ==
    IF ok THEN fetchLogs(rs, limit, stale) ELSE rs

\* The response of the live request at i is displayed: the live fetches sent
\* before it and still in flight have been passed.
Pass(rs, i) ==
    [j \in DOMAIN rs |->
        IF j < i /\ rs[j].kind = "logs" /\ ~rs[j].stale
        THEN [rs[j] EXCEPT !.passed = TRUE]
        ELSE rs[j]]

\* A response that reaches an unmounted instance: its setState calls do nothing.
MarkStale(rs) ==
    [i \in DOMAIN rs |->
        IF rs[i].kind \in {"logs", "clear"} THEN [rs[i] EXCEPT !.stale = TRUE]
        ELSE rs[i]]

\* The id setInterval returns identifies no interval that is active when it
\* is called.
FreeIds(ts) == (1..MaxTimerId) \ { t.id : t \in ts }
NewId(ts)   == CHOOSE id \in FreeIds(ts) : \A other \in FreeIds(ts) : id <= other

\* The effect of useEffect(..., [linesLimit]) runs for `limit`, after the
\* cleanup of the effect before it (if any) has left the timers `ts`.
RunEffect(limit, ts) ==
    /\ Len(reqs) < MaxInFlight
    /\ FreeIds(timers) # {}
    /\ isLoading' = TRUE
    /\ reqs' = effectRequests(reqs, limit)
    /\ LET id == NewId(timers) IN
        /\ timers' = setInterval(ts, id, limit)
        /\ interval' = id

\* The router mounts LogsViewer: fresh state, then the effect.
MountLogsViewer ==
    /\ logs' = <<>>
    /\ totalLines' = 0
    /\ linesLimit' = DefaultLimit
    /\ RunEffect(DefaultLimit, timers)

\* The router unmounts LogsViewer: the cleanup runs and the state is gone.
UnmountLogsViewer ==
    /\ timers' = cleanup(timers, interval)
    /\ interval' = 0
    /\ logs' = <<>>
    /\ totalLines' = 0
    /\ isLoading' = FALSE
    /\ linesLimit' = DefaultLimit
    /\ reqs' = MarkStale(reqs)

\* Client-side routing to `path` (react-router): no page load.
RouteTo(path) ==
    /\ route' = path
    /\ IF route = LogsPath /\ path # LogsPath THEN UnmountLogsViewer
       ELSE IF route # LogsPath /\ path = LogsPath THEN MountLogsViewer
       ELSE UNCHANGED <<viewVars, reqs>>

(***************************************************************************)
(* Actions: navigation.                                                    *)
(***************************************************************************)
\* A NavLink of the Sidebar, or a route entered by hand.
Navigate(path) ==
    /\ path \in {"/dashboard", LogsPath}
    /\ path # route
    /\ RouteTo(path)
    /\ last' = Step("navigate", NoStatus, Nothing)
    /\ UNCHANGED <<authVars, href>>

\* Header: the handler of the 'Выйти' button, shown inside MainLayout.
HeaderHandleLogout ==
    /\ route # LoginPath
    /\ RouteTo(LoginPath)
    /\ last' = Step("Header.handleLogout", NoStatus, Nothing)
    /\ UNCHANGED <<authVars, href>>

\* The browser carries out window.location.href = '/login': the document is
\* replaced, and with it every timer, pending request and component state.
PageLoad ==
    /\ href # ""
    /\ route' = href
    /\ href' = ""
    /\ reqs' = <<>>
    /\ authState' = InitialAuthState
    /\ logs' = <<>>
    /\ totalLines' = 0
    /\ isLoading' = FALSE
    /\ linesLimit' = DefaultLimit
    /\ interval' = 0
    /\ timers' = {}
    /\ last' = Step("load", NoStatus, Nothing)
    /\ UNCHANGED <<store, nowMs>>

\* Time passes.
Tick ==
    /\ nowMs < MaxTicks * 500
    /\ nowMs' = nowMs + 500
    /\ last' = Step("tick", NoStatus, Nothing)
    /\ UNCHANGED <<store, authState, route, href, reqs, viewVars>>


(***************************************************************************)
(* Actions: authService and useAuth.                                       *)
(***************************************************************************)
InvalidCredentials == "invalid username or password"

\* login(), after its await.  outcome is the resolved response's
\* access_token, or the rejection; st is the store at that moment.
loginSettled(outcome, st) ==
    IF outcome.ok
    THEN LET saved == setItem(st, outcome.access_token)
             d     == jwtDecode(outcome.access_token)
         IN  IF d.thrown \/ User(d.value).thrown
             THEN [store |-> saved,
                   result |-> [ok |-> FALSE, error |-> InvalidCredentials]]
             ELSE [store |-> saved,
                   result |-> [ok |-> TRUE, user |-> User(d.value).value]]
    ELSE [store |-> st, result |-> [ok |-> FALSE, error |-> InvalidCredentials]]

IsLogin(r) == r.kind = "login"

\* login(username, password) is called: the form is posted.  The credentials
\* reach only the server, whose answer is any of the responses below.
login ==
    /\ Len(reqs) < MaxInFlight
    /\ Len(SelectSeq(reqs, IsLogin)) < MaxLogins
    /\ reqs' = Send(reqs, "login", 0, FALSE)
    /\ last' = Step("login.submit", NoStatus, Nothing)
    /\ UNCHANGED <<authVars, route, href, viewVars>>

\* The server answers 2xx with {access_token}.
loginResolved(i, access_token) ==
    /\ reqs[i].kind = "login"
    /\ LET r == loginSettled([ok |-> TRUE, access_token |-> access_token], store) IN
        /\ store' = r.store
        /\ last' = Step("login", 200, r.result)
    /\ reqs' = Remove(reqs, i)
    /\ UNCHANGED <<nowMs, authState, route, href, viewVars>>

\* The server answers non-2xx, or does not answer.
loginRejected(i, error) ==
    /\ reqs[i].kind = "login"
    /\ LET rej == onRejected(error, store, href)
           r   == loginSettled([ok |-> FALSE], rej.store)
       IN  /\ store' = r.store
           /\ href' = rej.href
           /\ last' = Step("login", rej.status, r.result)
    /\ reqs' = Remove(reqs, i)
    /\ UNCHANGED <<nowMs, authState, route, viewVars>>

\* logout(), as a function of the store and the pending navigation.
logoutResult(st, h) == [store |-> removeItem(st), href |-> LoginPath]

logout ==
    /\ LET r == logoutResult(store, href) IN
        /\ store' = r.store
        /\ href' = r.href
    /\ last' = Step("logout", NoStatus, Nothing)
    /\ UNCHANGED <<nowMs, authState, route, reqs, viewVars>>

checkAuth ==
    /\ LET r == checkAuthResult(store, nowMs) IN
        /\ store' = r.store
        /\ last' = Step("checkAuth", NoStatus, r.result)
    /\ UNCHANGED <<nowMs, authState, route, href, reqs, viewVars>>

\* useAuth: the effect that runs once after the hook has mounted.
useAuthEffect ==
    /\ authState.isLoading
    /\ LET r == checkAuthResult(store, nowMs) IN
        /\ store' = r.store
        /\ authState' = [isAuthenticated |-> r.result.isAuthenticated,
                         user |-> r.result.user, isLoading |-> FALSE]
    /\ last' = Step("useAuth.effect", NoStatus, Nothing)
    /\ UNCHANGED <<nowMs, route, href, reqs, viewVars>>

\* useAuth: the logout the hook returns.
useAuthHandleLogout ==
    /\ LET r == logoutResult(store, href) IN
        /\ store' = r.store
        /\ href' = r.href
    /\ authState' = [authState EXCEPT !.isAuthenticated = FALSE, !.user = NullUser]
    /\ last' = Step("useAuth.logout", NoStatus, Nothing)
    /\ UNCHANGED <<nowMs, route, reqs, viewVars>>

(***************************************************************************)
(* Actions: LogsViewer.                                                    *)
(***************************************************************************)
\* The select's onChange: setLinesLimit(n); the re-render runs the cleanup
\* of the old effect and then the effect.
ChangeLimit(n) ==
    /\ Mounted
    /\ n \in Limits \ {linesLimit}
    /\ linesLimit' = n
    /\ RunEffect(n, cleanup(timers, interval))
    /\ last' = Step("changeLimit", NoStatus, Nothing)
    /\ UNCHANGED <<authVars, route, href, logs, totalLines>>

\* An interval fires: its callback calls fetchLogs().
TimerFire(t) ==
    /\ t \in timers
    /\ Len(reqs) < MaxInFlight
    /\ reqs' = fetchLogs(reqs, t.limit, t.id # interval)
    /\ isLoading' = IF t.id = interval THEN TRUE ELSE isLoading
    /\ last' = Step("timer", NoStatus, Nothing)
    /\ UNCHANGED <<authVars, route, href, logs, totalLines, linesLimit,
                   interval, timers>>

\* The refresh button, disabled while isLoading.
Refresh ==
    /\ Mounted
    /\ ~isLoading
    /\ Len(reqs) < MaxInFlight
    /\ reqs' = fetchLogs(reqs, linesLimit, FALSE)
    /\ isLoading' = TRUE
    /\ last' = Step("refresh", NoStatus, Nothing)
    /\ UNCHANGED <<authVars, route, href, logs, totalLines, linesLimit,
                   interval, timers>>

\* handleClearLogs(), up to its await: confirm(), then clearLogs().
handleClearLogs(confirmed) ==
    /\ Mounted
    /\ IF confirmed
       THEN /\ Len(reqs) < MaxInFlight
            /\ reqs' = Send(reqs, "clear", linesLimit, FALSE)
       ELSE UNCHANGED reqs
    /\ last' = Step(IF confirmed THEN "clear.submit" ELSE "clear.declined",
                    NoStatus, Nothing)
    /\ UNCHANGED <<authVars, route, href, viewVars>>

\* GET /api/logs answers 2xx: fetchLogs continues in its try block.
getLogsResolved(i, data) ==
    /\ reqs[i].kind = "logs"
    /\ IF reqs[i].stale
       THEN /\ reqs' = Remove(reqs, i)
            /\ UNCHANGED <<logs, totalLines, isLoading>>
            /\ last' = Step("fetchLogs.unmounted", 200, Nothing)
       ELSE /\ reqs' = Remove(Pass(reqs, i), i)
            /\ LET w == fetchLogsSettled([ok |-> TRUE, data |-> data], Window) IN
                /\ logs' = w.logs
                /\ totalLines' = w.totalLines
            /\ isLoading' = FALSE
            /\ last' = Step("fetchLogs", 200, data) @@ [late |-> reqs[i].passed]
    /\ UNCHANGED <<authVars, route, href, linesLimit, interval, timers>>

\* GET /api/logs fails: fetchLogs continues in its catch block.
getLogsRejected(i, error) ==
    /\ reqs[i].kind = "logs"
    /\ reqs' = Remove(reqs, i)
    /\ LET rej == onRejected(error, store, href) IN
        /\ store' = rej.store
        /\ href' = rej.href
        /\ IF reqs[i].stale
           THEN /\ UNCHANGED <<logs, totalLines, isLoading>>
                /\ last' = Step("fetchLogs.unmounted", rej.status, Nothing)
           ELSE /\ LET w == fetchLogsSettled([ok |-> FALSE], Window) IN
                    /\ logs' = w.logs
                    /\ totalLines' = w.totalLines
                /\ isLoading' = FALSE
                /\ last' = Step("fetchLogs", rej.status, Nothing)
    /\ UNCHANGED <<nowMs, authState, route, linesLimit, interval, timers>>

\* POST /api/logs/clear answers 2xx: handleClearLogs calls the fetchLogs it
\* closed over.
clearLogsResolved(i) ==
    /\ reqs[i].kind = "clear"
    /\ reqs' = handleClearLogsSettled(TRUE, Remove(reqs, i), reqs[i].limit,
                                      reqs[i].stale)
    /\ isLoading' = IF reqs[i].stale THEN isLoading ELSE TRUE
    /\ last' = Step("clear", 200, Nothing)
    /\ UNCHANGED <<authVars, route, href, logs, totalLines, linesLimit,
                   interval, timers>>

\* POST /api/logs/clear fails: handleClearLogs logs the error.
clearLogsRejected(i, error) ==
    /\ reqs[i].kind = "clear"
    /\ reqs' = handleClearLogsSettled(FALSE, Remove(reqs, i), reqs[i].limit,
                                      reqs[i].stale)
    /\ LET rej == onRejected(error, store, href) IN
        /\ store' = rej.store
        /\ href' = rej.href
        /\ last' = Step("clear", rej.status, Nothing)
    /\ UNCHANGED <<nowMs, authState, route, viewVars>>

(***************************************************************************)
(* The specifications.  Spec is the whole front end.  Its two halves share *)
(* nothing but the store, the pending navigation and the requests in       *)
(* flight, and TLC explores them apart: SpecAuth is the token lifecycle on *)
(* the pages other than /logs, starting from an empty store; SpecLogs is   *)
(* the log viewer, on a page loaded with the token that an earlier login   *)
(* left in the store.                                                      *)
(***************************************************************************)
Next ==
    \/ \E path \in Routes : Navigate(path)
    \/ HeaderHandleLogout
    \/ PageLoad
    \/ Tick
    \/ login
    \/ \E i \in DOMAIN reqs, t \in Tokens : loginResolved(i, t)
    \/ \E i \in DOMAIN reqs, e \in Errors : loginRejected(i, e)
    \/ logout
    \/ checkAuth
    \/ useAuthEffect
    \/ useAuthHandleLogout
    \/ \E n \in Limits : ChangeLimit(n)
    \/ \E t \in timers : TimerFire(t)
    \/ Refresh
    \/ \E c \in BOOLEAN : handleClearLogs(c)
    \/ \E i \in DOMAIN reqs, d \in LogsResponse : getLogsResolved(i, d)
    \/ \E i \in DOMAIN reqs, e \in Errors : getLogsRejected(i, e)
    \/ \E i \in DOMAIN reqs : clearLogsResolved(i)
    \/ \E i \in DOMAIN reqs, e \in Errors : clearLogsRejected(i, e)

Spec == Init /\ [][Next]_vars

NextAuth ==
    \/ \E path \in Routes \ {LogsPath} : Navigate(path)
    \/ HeaderHandleLogout
    \/ PageLoad
    \/ Tick
    \/ login
    \/ \E i \in DOMAIN reqs, t \in Tokens : loginResolved(i, t)
    \/ \E i \in DOMAIN reqs, e \in Errors : loginRejected(i, e)
    \/ logout
    \/ checkAuth
    \/ useAuthEffect
    \/ useAuthHandleLogout

SpecAuth == Init /\ [][NextAuth]_vars

\* What login has left in localStorage before the page was loaded: the log
\* viewer is opened in a browser that holds the token of an earlier login
\* (SpecAuth covers the empty store).
PersistedStores ==
    { Item(Jwt(c)) : c \in { d \in DecodedToken : d.sub = "1" /\ d.exp = MaxExp } }

InitLogs ==
    /\ store \in PersistedStores
    /\ nowMs = 0
    /\ route = LoginPath
    /\ href = ""
    /\ reqs = <<>>
    /\ authState = InitialAuthState
    /\ logs = <<>>
    /\ totalLines = 0
    /\ isLoading = FALSE
    /\ linesLimit = DefaultLimit
    /\ interval = 0
    /\ timers = {}
    /\ last = [op |-> "load", status |-> NoStatus, result |-> Nothing, before |-> store]

NextLogs ==
    \/ \E path \in {LogsPath} : Navigate(path)
    \/ HeaderHandleLogout
    \/ PageLoad
    \/ \E n \in Limits : ChangeLimit(n)
    \/ \E t \in timers : TimerFire(t)
    \/ Refresh
    \/ \E c \in BOOLEAN : handleClearLogs(c)
    \/ \E i \in DOMAIN reqs, d \in LogsResponse : getLogsResolved(i, d)
    \/ \E i \in DOMAIN reqs, e \in Errors : getLogsRejected(i, e)
    \/ \E i \in DOMAIN reqs : clearLogsResolved(i)
    \/ \E i \in DOMAIN reqs, e \in Errors : clearLogsRejected(i, e)

SpecLogs == InitLogs /\ [][NextLogs]_vars


(***************************************************************************)
(* Properties.                                                             *)
(***************************************************************************)
Decodes(tok)     == ~jwtDecode(tok).thrown /\ ~User(jwtDecode(tok).value).thrown
ClaimsOf(tok)    == jwtDecode(tok).value
UserOf(tok)      == User(jwtDecode(tok).value).value
LoginSignalled   == href = LoginPath \/ route = LoginPath

\* C1: whenever a response with status 401 has been handled, whatever the
\* endpoint, the Token Store holds no token and navigation to /login has
\* been signalled.  (Stated for a token the code would read as one: the
\* empty string counts as no token.)
C1_UnauthorizedClearsStore ==
    last.status = Unauthorized => ~Truthy(store) /\ href = LoginPath

\* C2: when checkAuth runs on a stored token whose exp is at or before the
\* current time (exp <= now, the boundary included), it returns
\* {isAuthenticated: false, user: null} and the store is left empty.
C2_ExpiredIsUnauthenticated ==
    ( /\ last.op = "checkAuth"
      /\ Truthy(last.before)
      /\ Decodes(last.before.tok)
      /\ ClaimsOf(last.before.tok).exp * MsPerSec <= nowMs )
    => last.result = Unauthenticated /\ ~store.present

C4_RejectedLoginKeepsStore ==
    (last.op = "login" /\ last.status \notin SuccessStatuses)
    => /\ last.result = [ok |-> FALSE, error |-> InvalidCredentials]
       /\ store = last.before

C4_Witness ==
    /\ last.op = "login"
    /\ last.status = Unauthorized
    /\ ~last.result.ok
    /\ Truthy(store)

\* C5: a checkAuth that immediately follows a login that returned a user
\* returns isAuthenticated = true with the user made of the claims of the
\* token that login stored.
C5_CheckAfterLogin ==
    [][ ( /\ last.op = "login"
          /\ last.result.ok
          /\ last'.op = "checkAuth" )
        => /\ last'.result.isAuthenticated
           /\ last'.result.user = UserOf(store.tok) ]_vars

\* C6: after any logout the user can trigger (authService logout, the logout
\* of useAuth, the Header's handler) the store is empty and navigation to
\* the login view has been signalled.  (Stated for a token the code would
\* read as one: the empty string counts as no token.)
C6_LogoutClearsStore ==
    last.op \in {"logout", "useAuth.logout", "Header.handleLogout"}
    => ~Truthy(store) /\ LoginSignalled


TimerIds(ts) == { t.id : t \in ts }

\* C7: a fetch that succeeds leaves the Log Window holding exactly the
\* response's logs, in their order, and its total_lines; a fetch that fails,
\* with any status or without a response, leaves logs and totalLines as
\* they were.
C7_FetchReplacesOrKeeps ==
    [][ last'.op = "fetchLogs"
        => IF last'.status \in SuccessStatuses
           THEN /\ logs' = last'.result.logs
                /\ totalLines' = last'.result.total_lines
           ELSE /\ logs' = logs
                /\ totalLines' = totalLines ]_vars

C7_Witness ==
    /\ last.op = "fetchLogs"
    /\ last.status \notin SuccessStatuses
    /\ logs = <<"b", "a">>
    /\ totalLines = 7

\* C8: a change of the limit to another value cancels the running interval,
\* leaves one new 30-second interval, and sends exactly one request, a
\* GET /api/logs with the new limit.
C8_LimitChangeRestartsTimer ==
    [][ last'.op = "changeLimit"
        => /\ linesLimit' # linesLimit
           /\ interval \notin TimerIds(timers')
           /\ interval' # interval
           /\ timers' = { [id |-> interval', ms |-> PollMs, limit |-> linesLimit'] }
           /\ Len(reqs') = Len(reqs) + 1
           /\ SubSeq(reqs', 1, Len(reqs)) = reqs
           /\ reqs'[Len(reqs')].kind = "logs"
           /\ reqs'[Len(reqs')].limit = linesLimit' ]_vars

C8_Witness ==
    /\ last.op = "changeLimit"
    /\ linesLimit = 500
    /\ Len(reqs) = 2
    /\ reqs[1].limit = DefaultLimit
    /\ reqs[2].limit = 500

\* C9: a request sent while a token is stored carries Authorization: Bearer
\* with the token stored at that moment; a request sent while the store is
\* empty carries no Authorization header.  (The empty string counts as no
\* token.)
C9_RequestCarriesStoredToken ==
    [][ Len(reqs') > Len(reqs)
        => LET sent == reqs'[Len(reqs')] IN
           /\ Truthy(store) => sent.Authorization = Bearer(store.tok)
           /\ ~Truthy(store) => sent.Authorization = NoHeader ]_vars

C9_Witness ==
    /\ last.op = "login.submit"
    /\ Truthy(store)
    /\ reqs[Len(reqs)].Authorization = Bearer(store.tok)

\* C10: while LogsViewer is mounted exactly one interval is active, and once
\* it is unmounted none is; an interval fires only while it is mounted.
C10_OneTimerWhileMounted ==
    /\ Mounted => Cardinality(timers) = 1 /\ TimerIds(timers) = {interval}
    /\ ~Mounted => timers = {}
    /\ last.op = "timer" => Mounted

C10_Witness ==
    /\ ~Mounted
    /\ timers = {}
    /\ last.op = "Header.handleLogout"
    /\ \E i \in DOMAIN reqs : reqs[i].stale

EmptyWindow == [logs |-> <<>>, totalLines |-> 0]

Payload(data) == [logs |-> data.logs, totalLines |-> data.total_lines]

\* C11: with fetches in flight together the responses arrive in any order,
\* and the Log Window follows the deliveries, not the order of issue: a
\* successful response that reaches the mounted viewer is displayed even
\* when a request sent after it was answered first; every other step leaves
\* the window as it was or, on an unmount, a mount or a page load, empties
\* it; and logs and totalLines are always those of one single response.
C11_LastDeliveredWins ==
    [][ /\ IF last'.op = "fetchLogs" /\ last'.status \in SuccessStatuses
           THEN Window' = Payload(last'.result)
           ELSE \/ Window' = Window
                \/ /\ Window' = EmptyWindow
                   /\ last'.op \in {"navigate", "Header.handleLogout", "load"}
        /\ Window' \in {EmptyWindow} \cup { Payload(d) : d \in LogsResponse } ]_vars

\* The response to an earlier request is on display, delivered after the
\* response to a later request had been displayed.
C11_Witness ==
    /\ last.op = "fetchLogs"
    /\ last.status \in SuccessStatuses
    /\ last.late
    /\ Window = Payload(last.result)
    /\ Window # EmptyWindow

InFlight(rs, kind) == Len(SelectSeq(rs, LAMBDA r : r.kind = kind))

\* C12: the clear action.  A confirmed clear sends one clear request and no
\* fetch; when that request succeeds, the handler issues exactly one fetch,
\* the newest request in flight; when it fails, with any status or without
\* a response, no fetch is issued; a declined confirmation sends nothing.
\* In every case the Log Window stays as it was, and a clear request is
\* never sent by anything but a confirmed clear.
C12_ClearThenOneFetch ==
    [][ /\ last'.op = "clear.submit"
           => /\ InFlight(reqs', "clear") = InFlight(reqs, "clear") + 1
              /\ InFlight(reqs', "logs") = InFlight(reqs, "logs")
              /\ Window' = Window
        /\ last'.op = "clear.declined"
           => /\ reqs' = reqs
              /\ Window' = Window
        /\ last'.op = "clear"
           => /\ InFlight(reqs', "clear") = InFlight(reqs, "clear") - 1
              /\ Window' = Window
              /\ IF last'.status \in SuccessStatuses
                 THEN /\ InFlight(reqs', "logs") = InFlight(reqs, "logs") + 1
                      /\ reqs'[Len(reqs')].kind = "logs"
                 ELSE InFlight(reqs', "logs") = InFlight(reqs, "logs")
        /\ InFlight(reqs', "clear") > InFlight(reqs, "clear")
           => last'.op = "clear.submit" ]_vars

\* A clear has succeeded under a window that shows lines: the window still
\* shows them and the one fetch of the handler is in flight.
C12_Witness ==
    /\ last.op = "clear"
    /\ last.status \in SuccessStatuses
    /\ Window # EmptyWindow
    /\ InFlight(reqs, "logs") = 1
    /\ InFlight(reqs, "clear") = 0

\* C13: a login that fails, by a rejection, by no response, or by a 2xx
\* response whose access_token cannot be decoded, leaves the Token Store as
\* it was before the call settled.
C13_FailedLoginKeepsStore ==
    last.op = "login" /\ ~last.result.ok => store = last.before

====
